---- MODULE Spec2Model ----
(***************************************************************************)
(* Model of Aula4/chat.py: a Streamlit dashboard over a salary table.      *)
(*                                                                         *)
(* Every run of the script (one "pass") is one atomic action: it loads the *)
(* table through the st.cache_data(ttl=3600) cache, builds the four        *)
(* sidebar multiselects, filters the table, computes the four KPIs and the *)
(* four chart inputs and shows the detailed table.                         *)
(*                                                                         *)
(* Strings hold ASCII only: the source's en dash sentinel (U+2013) is      *)
(* written "-" and the Portuguese messages are written without accents.    *)
(* A mean is kept exact, as a fraction in lowest terms.                    *)
(***************************************************************************)
EXTENDS Integers, Sequences, FiniteSets, TLC

VARIABLES
    clock,        \* wall-clock time in seconds
    fonte,        \* the remote CSV: [estado, tabela]
    cache,        \* the st.cache_data entry of carregar_dados: [valid, df, fetched_at]
    sessao,       \* Streamlit's widget state of the four multiselects, by label
    status,       \* "inicio" before the first pass, then "ok" or "erro"
    erro,         \* the exception that aborted the last pass ("" when none)
    etapas,       \* the stages the last pass executed, in order
    fetches,      \* remote fetches (pd.read_csv calls) made by the last pass
    df,           \* the table the last pass loaded
    df_filtrado,  \* the filtered table of the last pass
    kpi,          \* the four metrics of the last pass
    graficos,     \* the four chart inputs (or st.info messages) of the last pass
    tabela,       \* the detailed table shown by the last pass
    evento        \* the last step: "inicio" (none), "pass" (a run of the script) or
                  \* "ambiente" (the clock or the remote source moved)

vars == <<clock, fonte, cache, sessao, status, erro, etapas, fetches, df,
          df_filtrado, kpi, graficos, tabela, evento>>

-----------------------------------------------------------------------------
(* Bounds of the model *)

\* Longest table enumerated row by row from Linhas
MaxRows == 2
\* Cache windows the clock runs through
MaxJanelas == 1

-----------------------------------------------------------------------------
(* Program constants *)

TTL == 3600
TopN == 10
Sentinela == "-"
CargoDS == "Data Scientist"
MsgCargos == "Nenhum dado disponivel para o grafico de cargos."
MsgDist == "Nenhum dado disponivel para o grafico de distribuicao."
MsgRemoto == "Nenhum dado disponivel para o grafico de tipos de trabalho."
MsgPais == "Nenhum dado disponivel para o grafico por pais."
MsgSemDS == "Nenhum dado para Cientista de Dados nesta selecao."

\* The four filters: label of the multiselect and the column it reads
Labels == {"Ano", "Senioridade", "Tipo de Contrato", "Tamanho da Empresa"}
ColunaDe ==
    [l \in Labels |->
        CASE l = "Ano" -> "ano"
          [] l = "Senioridade" -> "senioridade"
          [] l = "Tipo de Contrato" -> "contrato"
          [] l = "Tamanho da Empresa" -> "tamanho_empresa"]

-----------------------------------------------------------------------------
(* Values and their order *)

\* Python orders str by code point; this is the universe of strings of the
\* model, in that order.
Alfabeto ==
    << "Analytics Engineer", "BI Developer", "BRA", "CAN", "Data Analyst",
       "Data Architect", "Data Engineer", "Data Manager", "Data Scientist",
       "ML Engineer", "Machine Learning Engineer", "Research Engineer",
       "Research Scientist", "Statistician", "USA", "grande", "hibrido",
       "integral", "junior", "parcial", "pequena", "presencial", "remoto",
       "senior" >>

Posicao(v) == CHOOSE i \in DOMAIN Alfabeto : Alfabeto[i] = v

\* Sort key of a value of column c: integers for "ano", code-point order otherwise
Chave(c, v) == IF c = "ano" THEN v ELSE Posicao(v)

\* One record of the table
Linha(a, s, c, t, g, u, r, p) ==
    [ano |-> a, senioridade |-> s, contrato |-> c, tamanho_empresa |-> t,
     cargo |-> g, usd |-> u, remoto |-> r, residencia_iso3 |-> p]

-----------------------------------------------------------------------------
(* pandas / Python primitives, as the script uses them *)

\* df[c]
Coluna(t, c) == [i \in DOMAIN t |-> t[i][c]]

\* Series.unique(): the distinct values, in order of first appearance
unique(s) ==
    LET f[i \in 0..Len(s)] ==
            IF i = 0 THEN <<>>
            ELSE IF \E j \in 1..(i-1) : s[j] = s[i] THEN f[i-1]
                 ELSE Append(f[i-1], s[i])
    IN f[Len(s)]

\* The elements of a list, as a set
Elementos(s) == {s[i] : i \in DOMAIN s}

\* x put into the sorted t after every element e with antes[e, x]
Inserir(x, t, antes) ==
    LET k == Cardinality({i \in DOMAIN t : antes[t[i], x]})
    IN SubSeq(t, 1, k) \o <<x>> \o SubSeq(t, k+1, Len(t))

\* A stable sort of s: e stays before x when antes[e, x]
Ordenar(s, antes) ==
    LET f[i \in 0..Len(s)] ==
            IF i = 0 THEN <<>> ELSE Inserir(s[i], f[i-1], antes)
    IN f[Len(s)]

\* sorted(values) of column c
sorted(s, c) ==
    Ordenar(s, [e \in Elementos(s), x \in Elementos(s) |-> Chave(c, e) <= Chave(c, x)])

\* Series.isin(valores), for one value
isin(v, valores) == \E i \in DOMAIN valores : valores[i] = v

\* Number of occurrences of v in s
Contar(s, v) == Cardinality({i \in DOMAIN s : s[i] = v})

Soma(s) ==
    LET f[i \in 0..Len(s)] == IF i = 0 THEN 0 ELSE f[i-1] + s[i]
    IN f[Len(s)]

RECURSIVE MDC(_, _)
MDC(a, b) == IF b = 0 THEN a ELSE MDC(b, a % b)

\* A fraction in lowest terms
Fracao(n, d) == LET g == MDC(n, d) IN [num |-> n \div g, den |-> d \div g]
Zero == [num |-> 0, den |-> 1]
MenorIgualQ(p, q) == p.num * q.den <= q.num * p.den

\* Series.mean() of a non-empty column of integers
mean(s) == Fracao(Soma(s), Len(s))

\* Series.max() of a non-empty column
max(s) == CHOOSE m \in {s[i] : i \in DOMAIN s} : \A i \in DOMAIN s : s[i] <= m

\* Mutant of mode: the most frequent values in order of first appearance
mode_sem_ordem(s, c) ==
    LET u == unique(s)
        maior == CHOOSE n \in {Contar(s, u[i]) : i \in DOMAIN u} :
                     \A i \in DOMAIN u : Contar(s, u[i]) <= n
    IN SelectSeq(u, LAMBDA v : Contar(s, v) = maior)

\* Series.mode(): the most frequent values, sorted
mode(s, c) ==
    LET u == unique(s)
        maior == CHOOSE n \in {Contar(s, u[i]) : i \in DOMAIN u} :
                     \A i \in DOMAIN u : Contar(s, u[i]) <= n
    IN sorted(SelectSeq(u, LAMBDA v : Contar(s, v) = maior), c)

\* df.groupby(chave)['usd'].mean(): one entry per key, in sorted key order
groupby_mean(t, chave) ==
    LET ks == sorted(unique(Coluna(t, chave)), chave)
    IN [i \in DOMAIN ks |->
           [k |-> ks[i],
            usd |-> mean(Coluna(SelectSeq(t, LAMBDA r : r[chave] = ks[i]), "usd"))]]

\* Mutant of nlargest: nsmallest, the n smallest values
nsmallest(s, n) ==
    LET a == Ordenar(s, [e \in Elementos(s), x \in Elementos(s) |->
                            MenorIgualQ(e.usd, x.usd)])
    IN SubSeq(a, 1, IF Len(a) < n THEN Len(a) ELSE n)

\* Series.nlargest(n), keep='first': descending by value, ties in their
\* original order, the first n
nlargest(s, n) ==
    LET d == Ordenar(s, [e \in Elementos(s), x \in Elementos(s) |->
                            MenorIgualQ(x.usd, e.usd)])
    IN SubSeq(d, 1, IF Len(d) < n THEN Len(d) ELSE n)

\* Series.sort_values(): ascending by value
sort_values(s) ==
    Ordenar(s, [e \in Elementos(s), x \in Elementos(s) |-> MenorIgualQ(e.usd, x.usd)])

\* Mutant of value_counts: every distinct value counted once
value_counts_distintos(s) ==
    LET u == unique(s)
    IN [i \in DOMAIN u |-> [k |-> u[i], n |-> 1]]

\* Series.value_counts(): one entry per distinct value, descending by count
value_counts(s) ==
    LET u == unique(s)
        cs == [i \in DOMAIN u |-> [k |-> u[i], n |-> Contar(s, u[i])]]
    IN Ordenar(cs, [e \in Elementos(cs), x \in Elementos(cs) |-> e.n >= x.n])

\* DataFrame.reset_index() of a grouped Series: the key becomes column nome
reset_index(s, nome, valor) ==
    [i \in DOMAIN s |->
        [x \in {nome, valor} |-> IF x = nome THEN s[i].k ELSE s[i][valor]]]

\* The sub-list of s at the positions I, in the order of s
SubLista(s, I) ==
    LET f[i \in 0..Len(s)] ==
            IF i = 0 THEN <<>>
            ELSE IF i \in I THEN Append(f[i-1], s[i]) ELSE f[i-1]
    IN f[Len(s)]

\* What a user can leave selected in a multiselect over opcoes
Selecoes(opcoes) == {SubLista(opcoes, I) : I \in SUBSET DOMAIN opcoes}

-----------------------------------------------------------------------------
(* The data the remote CSV can hold *)

Linhas ==
    << Linha(2021, "junior", "integral", "pequena", "Data Scientist", 50000, "presencial", "BRA"),
       Linha(2022, "senior", "integral", "grande", "Data Analyst", 60000, "remoto", "USA"),
       Linha(2022, "junior", "parcial", "grande", "Data Scientist", 70000, "remoto", "BRA"),
       Linha(2021, "senior", "parcial", "pequena", "Data Engineer", 70000, "hibrido", "USA"),
       Linha(2022, "senior", "integral", "pequena", "Data Analyst", 90000, "presencial", "CAN") >>

\* Every table of at most MaxRows rows drawn from Linhas
TabelasPequenas ==
    UNION {[1..n -> {Linhas[i] : i \in DOMAIN Linhas}] : n \in 0..MaxRows}

\* Salaries 50000, 60000, 70000 over the years 2021 and 2022
TabelaCenario ==
    << Linha(2021, "senior", "integral", "grande", "Data Scientist", 50000, "remoto", "BRA"),
       Linha(2022, "senior", "integral", "grande", "Data Analyst", 60000, "presencial", "USA"),
       Linha(2022, "senior", "integral", "grande", "Data Scientist", 70000, "remoto", "USA") >>

\* No "Data Scientist" row; the options of Ano and Senioridade differ from
\* those of TabelaCenario, the other two are the same
TabelaSemDS ==
    << Linha(2022, "junior", "integral", "grande", "Data Engineer", 70000, "hibrido", "CAN"),
       Linha(2022, "senior", "integral", "grande", "Data Analyst", 90000, "presencial", "CAN") >>

\* Twelve job titles, three of them tied at the lowest mean
TabelaGrande ==
    << Linha(2022, "senior", "integral", "grande", "Research Scientist", 140000, "remoto", "USA"),
       Linha(2022, "senior", "integral", "grande", "ML Engineer", 130000, "remoto", "USA"),
       Linha(2022, "senior", "integral", "grande", "Machine Learning Engineer", 125000, "remoto", "CAN"),
       Linha(2022, "senior", "integral", "grande", "Data Architect", 120000, "hibrido", "USA"),
       Linha(2022, "senior", "integral", "grande", "Data Scientist", 110000, "remoto", "USA"),
       Linha(2022, "senior", "integral", "grande", "Data Engineer", 100000, "remoto", "CAN"),
       Linha(2022, "senior", "integral", "grande", "Analytics Engineer", 90000, "hibrido", "USA"),
       Linha(2022, "junior", "integral", "grande", "Data Scientist", 80000, "remoto", "USA"),
       Linha(2022, "junior", "integral", "grande", "Research Engineer", 70000, "presencial", "BRA"),
       Linha(2021, "junior", "integral", "grande", "Data Scientist", 60000, "presencial", "BRA"),
       Linha(2022, "senior", "integral", "grande", "Statistician", 50000, "presencial", "CAN"),
       Linha(2022, "junior", "integral", "grande", "Data Manager", 40000, "hibrido", "USA"),
       Linha(2022, "junior", "integral", "grande", "Data Analyst", 40000, "presencial", "BRA"),
       Linha(2022, "senior", "integral", "grande", "BI Developer", 40000, "presencial", "BRA"),
       Linha(2021, "junior", "integral", "grande", "Statistician", 45000, "remoto", "BRA") >>

Tabelas == TabelasPequenas \cup {TabelaCenario, TabelaSemDS, TabelaGrande}

FonteOk(t) == [estado |-> "ok", tabela |-> t]
FonteFora == [estado |-> "inacessivel", tabela |-> <<>>]
FonteInvalida == [estado |-> "malformada", tabela |-> <<>>]

\* The instants the clock stops at: around the start and the end of each cache window
Instantes ==
    {t \in {k * TTL + d : k \in 0..MaxJanelas, d \in {-1, 0, 1}} : t >= 0}

-----------------------------------------------------------------------------
(* The script, stage by stage *)

SemCache == [valid |-> FALSE, df |-> <<>>, fetched_at |-> 0]

\* Mutant of CacheHit: an entry exactly ttl seconds old still answers
CacheHit_inclusive(c, t) == c.valid /\ t - c.fetched_at <= TTL

\* st.cache_data(ttl=3600): the entry c answers a call at time t while it is
\* younger than the ttl
CacheHit(c, t) == c.valid /\ t - c.fetched_at < TTL

\* pd.read_csv(url): the table, or the exception it raises
read_csv(f) ==
    CASE f.estado = "ok" -> [ok |-> TRUE, df |-> f.tabela, erro |-> ""]
      [] f.estado = "inacessivel" -> [ok |-> FALSE, df |-> <<>>, erro |-> "URLError"]
      [] f.estado = "malformada" -> [ok |-> FALSE, df |-> <<>>, erro |-> "ParserError"]

\* Mutant of carregar_dados: a failed fetch is caught and an empty table returned
carregar_dados_tolerante(c, t, f) ==
    IF CacheHit(c, t)
    THEN [ok |-> TRUE, df |-> c.df, erro |-> "", cache |-> c, fetches |-> 0]
    ELSE LET r == read_csv(f)
         IN [ok |-> TRUE, df |-> r.df, erro |-> "",
             cache |-> [valid |-> TRUE, df |-> r.df, fetched_at |-> t],
             fetches |-> 1]

\* carregar_dados() behind its cache: the table returned (or the exception),
\* the cache entry left behind and the number of fetches made
carregar_dados(c, t, f) ==
    IF CacheHit(c, t)
    THEN [ok |-> TRUE, df |-> c.df, erro |-> "", cache |-> c, fetches |-> 0]
    ELSE LET r == read_csv(f)
         IN IF r.ok
            THEN [ok |-> TRUE, df |-> r.df, erro |-> "",
                  cache |-> [valid |-> TRUE, df |-> r.df, fetched_at |-> t],
                  fetches |-> 1]
            ELSE [ok |-> FALSE, df |-> <<>>, erro |-> r.erro,
                  cache |-> SemCache, fetches |-> 1]

WidgetAusente == [montado |-> FALSE, opcoes |-> <<>>, valor |-> <<>>]

\* st.sidebar.multiselect(label, opcoes, default): the widget keeps the value
\* the session holds for it while it is the same widget (same options and
\* default), and starts at its default otherwise
multiselect(w, opcoes, default) ==
    IF w.montado /\ w.opcoes = opcoes
    THEN w
    ELSE [montado |-> TRUE, opcoes |-> opcoes, valor |-> default]

\* Mutant of filtro_multiselect: the options lose the largest value
filtro_multiselect_incompleto(label, df_col, w) ==
    LET todas == sorted(unique(df_col), ColunaDe[label])
        opcoes == SubSeq(todas, 1, Len(todas) - 1)
    IN multiselect(w, opcoes, opcoes)

filtro_multiselect(label, df_col, w) ==
    LET opcoes == sorted(unique(df_col), ColunaDe[label])
    IN multiselect(w, opcoes, opcoes)

\* Mutant of filtragem: the test of the contract type is left out
filtragem_sem_contrato(t, anos, senioridades, contratos, tamanhos) ==
    SelectSeq(t, LAMBDA r :
        /\ isin(r.ano, anos)
        /\ isin(r.senioridade, senioridades)
        /\ isin(r.tamanho_empresa, tamanhos))

\* Mutant of filtragem: the four tests joined by | instead of &
filtragem_ou(t, anos, senioridades, contratos, tamanhos) ==
    SelectSeq(t, LAMBDA r :
        \/ isin(r.ano, anos)
        \/ isin(r.senioridade, senioridades)
        \/ isin(r.contrato, contratos)
        \/ isin(r.tamanho_empresa, tamanhos))

\* df[isin(ano) & isin(senioridade) & isin(contrato) & isin(tamanho_empresa)]
filtragem(t, anos, senioridades, contratos, tamanhos) ==
    SelectSeq(t, LAMBDA r :
        /\ isin(r.ano, anos)
        /\ isin(r.senioridade, senioridades)
        /\ isin(r.contrato, contratos)
        /\ isin(r.tamanho_empresa, tamanhos))

\* KPIs principais
KPIs(tf) ==
    IF tf # <<>>
    THEN [salario_medio |-> mean(Coluna(tf, "usd")),
          salario_maximo |-> max(Coluna(tf, "usd")),
          total_registros |-> Len(tf),
          cargo_mais_frequente |-> mode(Coluna(tf, "cargo"), "cargo")[1]]
    ELSE [salario_medio |-> Zero,
          salario_maximo |-> 0,
          total_registros |-> 0,
          cargo_mais_frequente |-> Sentinela]

Info(m) == [tipo |-> "info", msg |-> m, dados |-> <<>>]
Figura(tipo, dados) == [tipo |-> tipo, msg |-> "", dados |-> dados]

\* Grafico 1: top_cargos
grafico_cargos(tf) ==
    IF tf # <<>>
    THEN Figura("bar",
                reset_index(sort_values(nlargest(groupby_mean(tf, "cargo"), TopN)),
                            "cargo", "usd"))
    ELSE Info(MsgCargos)

\* Grafico 2: the salaries handed to px.histogram
grafico_dist(tf) ==
    IF tf # <<>> THEN Figura("histogram", Coluna(tf, "usd")) ELSE Info(MsgDist)

\* Grafico 3: remoto_contagem
grafico_remoto(tf) ==
    IF tf # <<>>
    THEN Figura("pie",
                LET vc == value_counts(Coluna(tf, "remoto"))
                IN [i \in DOMAIN vc |->
                       [x \in {"Tipo de Trabalho", "Quantidade"} |->
                           IF x = "Quantidade" THEN vc[i].n ELSE vc[i].k]])
    ELSE Info(MsgRemoto)

\* Mutant of grafico_pais: the inner check reports the outer message
grafico_pais_uma_mensagem(tf) ==
    IF tf # <<>>
    THEN LET df_ds == SelectSeq(tf, LAMBDA r : r.cargo = CargoDS)
         IN IF df_ds # <<>>
            THEN Figura("choropleth",
                        reset_index(groupby_mean(df_ds, "residencia_iso3"),
                                    "residencia_iso3", "usd"))
            ELSE Info(MsgPais)
    ELSE Info(MsgPais)

\* Grafico 4: media_pais
grafico_pais(tf) ==
    IF tf # <<>>
    THEN LET df_ds == SelectSeq(tf, LAMBDA r : r.cargo = CargoDS)
         IN IF df_ds # <<>>
            THEN Figura("choropleth",
                        reset_index(groupby_mean(df_ds, "residencia_iso3"),
                                    "residencia_iso3", "usd"))
            ELSE Info(MsgSemDS)
    ELSE Info(MsgPais)

TodasEtapas ==
    <<"carregar_dados", "filtros", "filtragem", "kpis", "grafico_cargos",
      "grafico_dist", "grafico_remoto", "grafico_pais", "tabela">>

KpiAusente ==
    [salario_medio |-> Zero, salario_maximo |-> 0, total_registros |-> 0,
     cargo_mais_frequente |-> ""]
SemFigura == Figura("ausente", <<>>)
SemGraficos ==
    [cargos |-> SemFigura, dist |-> SemFigura, remoto |-> SemFigura, pais |-> SemFigura]

\* One run of the script, top to bottom, on the cache entry c at time t with
\* the remote source f and the session's widget state w: what it leaves behind.
\* An exception of carregar_dados (line 30) ends the run there: no widget is
\* built (the session forgets widgets a run does not build) and nothing after
\* the title is shown.
Script(c, t, f, w) ==
    LET carga == carregar_dados(c, t, f)
    IN IF carga.ok
       THEN LET d == carga.df
                ws == [l \in Labels |->
                          filtro_multiselect(l, Coluna(d, ColunaDe[l]), w[l])]
                tf == filtragem(d, ws["Ano"].valor, ws["Senioridade"].valor,
                                ws["Tipo de Contrato"].valor,
                                ws["Tamanho da Empresa"].valor)
            IN [status |-> "ok", erro |-> "", etapas |-> TodasEtapas,
                cache |-> carga.cache, fetches |-> carga.fetches,
                sessao |-> ws, df |-> d, df_filtrado |-> tf, kpi |-> KPIs(tf),
                graficos |-> [cargos |-> grafico_cargos(tf),
                              dist |-> grafico_dist(tf),
                              remoto |-> grafico_remoto(tf),
                              pais |-> grafico_pais(tf)],
                tabela |-> tf]
       ELSE [status |-> "erro", erro |-> carga.erro,
             etapas |-> <<"carregar_dados">>,
             cache |-> carga.cache, fetches |-> carga.fetches,
             sessao |-> [l \in Labels |-> WidgetAusente], df |-> <<>>,
             df_filtrado |-> <<>>, kpi |-> KpiAusente, graficos |-> SemGraficos,
             tabela |-> <<>>]

-----------------------------------------------------------------------------
(* Actions *)

\* Mutant of Pass: the metrics of an earlier run are kept while there are any
Pass_kpi_antigo(w) ==
    LET r == Script(cache, clock, fonte, w)
    IN /\ status' = r.status
       /\ erro' = r.erro
       /\ etapas' = r.etapas
       /\ cache' = r.cache
       /\ fetches' = r.fetches
       /\ sessao' = r.sessao
       /\ df' = r.df
       /\ df_filtrado' = r.df_filtrado
       /\ kpi' = IF status = "ok" THEN kpi ELSE r.kpi
       /\ graficos' = r.graficos
       /\ tabela' = r.tabela
       /\ UNCHANGED <<clock, fonte>>

\* A run of the script with the widget state w
Pass(w) ==
    LET r == Script(cache, clock, fonte, w)
    IN /\ status' = r.status
       /\ erro' = r.erro
       /\ etapas' = r.etapas
       /\ cache' = r.cache
       /\ fetches' = r.fetches
       /\ sessao' = r.sessao
       /\ df' = r.df
       /\ df_filtrado' = r.df_filtrado
       /\ kpi' = r.kpi
       /\ graficos' = r.graficos
       /\ tabela' = r.tabela
       /\ UNCHANGED <<clock, fonte>>

\* The page is opened or reloaded: the script runs with the session as it is
Rerun ==
    /\ Pass(sessao)
    /\ evento' = "pass"

\* The user changes what one multiselect holds: the script runs again
AlterarSelecao ==
    /\ status = "ok"
    /\ \E l \in Labels :
        \E v \in Selecoes(sessao[l].opcoes) :
            /\ v # sessao[l].valor
            /\ Pass([sessao EXCEPT ![l].valor = v])
    /\ evento' = "pass"

\* Time passes
Tick ==
    /\ \E t \in Instantes : t > clock /\ clock' = t
    /\ evento' = "ambiente"
    /\ UNCHANGED <<fonte, cache, sessao, status, erro, etapas, fetches, df,
                   df_filtrado, kpi, graficos, tabela>>

\* What the remote source can be in the running application
Fontes == {FonteOk(TabelaCenario), FonteOk(TabelaSemDS), FonteFora, FonteInvalida}

\* The remote file is replaced, or becomes unreachable or unparsable
AtualizarFonte ==
    /\ \E f \in Fontes : f # fonte /\ fonte' = f
    /\ evento' = "ambiente"
    /\ UNCHANGED <<clock, cache, sessao, status, erro, etapas, fetches, df,
                   df_filtrado, kpi, graficos, tabela>>

InitComum ==
    /\ clock = 0
    /\ cache = SemCache
    /\ sessao = [l \in Labels |-> WidgetAusente]
    /\ status = "inicio"
    /\ erro = ""
    /\ etapas = <<>>
    /\ fetches = 0
    /\ df = <<>>
    /\ df_filtrado = <<>>
    /\ kpi = KpiAusente
    /\ graficos = SemGraficos
    /\ tabela = <<>>
    /\ evento = "inicio"

\* The application: the clock runs and the remote source changes
Init == InitComum /\ fonte \in Fontes
Next == Rerun \/ AlterarSelecao \/ Tick \/ AtualizarFonte
Spec == Init /\ [][Next]_vars

\* The filter and aggregation pipeline over every table of Tabelas
InitPipeline == InitComum /\ fonte \in {FonteOk(t) : t \in Tabelas}
NextPipeline == Rerun \/ AlterarSelecao
SpecPipeline == InitPipeline /\ [][NextPipeline]_vars

-----------------------------------------------------------------------------
(* Properties of the filter *)

\* The values a multiselect holds, as a set
Valores(lista) == {lista[i] : i \in DOMAIN lista}

\* The tests of the four filters that row r fails under the session's selection
Reprovados(r) == {l \in Labels : r[ColunaDe[l]] \notin Valores(sessao[l].valor)}

\* C1: the Filtered Table holds exactly the rows of the Table that pass all
\* four membership tests, unaltered and in the Table's order; it is a
\* sub-table of the Table.
C1_FiltroConjuntivo ==
    status = "ok" =>
        /\ df_filtrado = SelectSeq(df, LAMBDA r : Reprovados(r) = {})
        /\ \A i \in DOMAIN df_filtrado : \E j \in DOMAIN df : df[j] = df_filtrado[i]
        /\ Len(df_filtrado) <= Len(df)

\* C1 witness: a pass kept one row and dropped another that fails a single test
C1_Witness ==
    /\ status = "ok"
    /\ evento = "pass"
    /\ df_filtrado # <<>>
    /\ \E i \in DOMAIN df : Cardinality(Reprovados(df[i])) = 1

\* C2: with every multiselect holding the default filtro_multiselect builds
\* (all its options, which are the distinct values of its column), the
\* Filtered Table equals the full Table.
C2_SelecaoPadrao ==
    (status = "ok" /\ \A l \in Labels : sessao[l].valor = sessao[l].opcoes) =>
        /\ \A l \in Labels :
              Valores(sessao[l].opcoes) = {df[i][ColunaDe[l]] : i \in DOMAIN df}
        /\ df_filtrado = df

\* C2 witness: a pass with the default selection over a table whose columns
\* hold several values
C2_Witness ==
    /\ status = "ok"
    /\ evento = "pass"
    /\ \A l \in Labels : sessao[l].valor = sessao[l].opcoes
    /\ Len(df) >= 2
    /\ \E l \in Labels : Len(sessao[l].opcoes) >= 2
    /\ df_filtrado = df

\* C3: an empty selection in any one multiselect gives an empty Filtered
\* Table, no error, and the metrics 0, 0, 0 and the sentinel.
C3_SelecaoVazia ==
    (status = "ok" /\ \E l \in Labels : sessao[l].valor = <<>>) =>
        /\ df_filtrado = <<>>
        /\ erro = ""
        /\ etapas = TodasEtapas
        /\ kpi.salario_medio = [num |-> 0, den |-> 1]
        /\ kpi.salario_maximo = 0
        /\ kpi.total_registros = 0
        /\ kpi.cargo_mais_frequente = "-"

\* C3 witness: one multiselect emptied by the user, the other three left full,
\* over a table with rows
C3_Witness ==
    /\ status = "ok"
    /\ evento = "pass"
    /\ df # <<>>
    /\ \E l \in Labels :
          /\ sessao[l].valor = <<>>
          /\ \A m \in Labels \ {l} : sessao[m].valor = sessao[m].opcoes
    /\ kpi.cargo_mais_frequente = "-"

-----------------------------------------------------------------------------
(* Properties of the metrics and of the chart inputs *)

\* The job titles of the Filtered Table and how often each occurs
Cargos == {df_filtrado[i].cargo : i \in DOMAIN df_filtrado}
Ocorrencias(c) == Cardinality({i \in DOMAIN df_filtrado : df_filtrado[i].cargo = c})
MaisFrequentes == {c \in Cargos : \A d \in Cargos : Ocorrencias(d) <= Ocorrencias(c)}

\* The most frequent title met first in the rows of the Filtered Table
PrimeiroMaisFrequente ==
    LET i == CHOOSE j \in DOMAIN df_filtrado :
                 /\ df_filtrado[j].cargo \in MaisFrequentes
                 /\ \A k \in 1..(j-1) : df_filtrado[k].cargo \notin MaisFrequentes
    IN df_filtrado[i].cargo

\* C4 as stated: among the most frequent titles, the one met first in the
\* table's row order is reported.
C4_PrimeiroEncontrado ==
    (status = "ok" /\ df_filtrado # <<>>) =>
        kpi.cargo_mais_frequente = PrimeiroMaisFrequente

\* C4 amended: top_title is a title of maximal count, and among several it
\* is the smallest in sorted (code-point) order, whatever the row order.
C4_MenorEmOrdem ==
    (status = "ok" /\ df_filtrado # <<>>) =>
        /\ kpi.cargo_mais_frequente \in MaisFrequentes
        /\ \A c \in MaisFrequentes :
              Posicao(kpi.cargo_mais_frequente) <= Posicao(c)

\* C4 witness: a tie whose first-met title is not the one reported
C4_Witness ==
    /\ status = "ok"
    /\ evento = "pass"
    /\ df_filtrado # <<>>
    /\ Cardinality(MaisFrequentes) >= 2
    /\ kpi.cargo_mais_frequente # PrimeiroMaisFrequente

\* Sum and number of the salaries of the rows of the Filtered Table chosen by Em
SalarioTotal(Em(_)) ==
    LET f[i \in 0..Len(df_filtrado)] ==
            IF i = 0 THEN 0
            ELSE f[i-1] + (IF Em(df_filtrado[i]) THEN df_filtrado[i].usd ELSE 0)
    IN f[Len(df_filtrado)]
Quantos(Em(_)) == Cardinality({i \in DOMAIN df_filtrado : Em(df_filtrado[i])})

\* q is the arithmetic mean of the salaries of the rows chosen by Em
MediaDe(q, Em(_)) == q.den > 0 /\ q.num * Quantos(Em) = SalarioTotal(Em) * q.den

\* The mean salary of title c is at most q
MediaNoMaximo(c, q) ==
    SalarioTotal(LAMBDA r : r.cargo = c) * q.den
        <= q.num * Quantos(LAMBDA r : r.cargo = c)

\* C5: the Top-N input holds one entry per title for the 10 titles of
\* highest mean salary (all titles when there are fewer), never more than
\* 10, each with the mean salary of its title, in ascending order of mean.
C5_TopCargos ==
    (status = "ok" /\ df_filtrado # <<>>) =>
        LET g == graficos.cargos.dados
            escolhidos == {g[i].cargo : i \in DOMAIN g}
        IN /\ graficos.cargos.tipo = "bar"
           /\ Len(g) <= 10
           /\ Len(g) = IF Cardinality(Cargos) < 10 THEN Cardinality(Cargos) ELSE 10
           /\ Cardinality(escolhidos) = Len(g)
           /\ escolhidos \subseteq Cargos
           /\ \A i \in DOMAIN g : MediaDe(g[i].usd, LAMBDA r : r.cargo = g[i].cargo)
           /\ \A i \in DOMAIN g : \A c \in Cargos \ escolhidos : MediaNoMaximo(c, g[i].usd)
           /\ \A i \in DOMAIN g : \A j \in DOMAIN g :
                 i < j => g[i].usd.num * g[j].usd.den <= g[j].usd.num * g[i].usd.den

\* C5 witness: more than 10 titles, of which 10 are kept, and a title left
\* out that ties with the lowest one kept
C5_Witness ==
    /\ status = "ok"
    /\ evento = "pass"
    /\ Cardinality(Cargos) > 10
    /\ Len(graficos.cargos.dados) = 10
    /\ \E c \in Cargos \ {graficos.cargos.dados[i].cargo : i \in 1..10} :
          MediaDe(graficos.cargos.dados[1].usd, LAMBDA r : r.cargo = c)

\* The counts of the work-mode input, added up
SomaQuantidades ==
    LET d == graficos.remoto.dados
        f[i \in 0..Len(d)] == IF i = 0 THEN 0 ELSE f[i-1] + d[i]["Quantidade"]
    IN f[Len(d)]

\* C6: for a non-empty Filtered Table the counts of the work-mode input add
\* up to total_registros, the number of rows of the Filtered Table.
C6_SomaContagens ==
    (status = "ok" /\ df_filtrado # <<>>) =>
        /\ graficos.remoto.tipo = "pie"
        /\ kpi.total_registros = Len(df_filtrado)
        /\ SomaQuantidades = kpi.total_registros

\* C6 witness: several work modes, one of them on several rows
C6_Witness ==
    /\ status = "ok"
    /\ evento = "pass"
    /\ Len(graficos.remoto.dados) >= 2
    /\ \E i \in DOMAIN graficos.remoto.dados : graficos.remoto.dados[i]["Quantidade"] >= 2
    /\ SomaQuantidades = Len(df_filtrado)

\* The rows of the Filtered Table with the title "Data Scientist"
LinhasDS == {i \in DOMAIN df_filtrado : df_filtrado[i].cargo = "Data Scientist"}

\* C7: the per-country chart has three exclusive outcomes: the outer "no
\* data" message for an empty Filtered Table, another, title-specific
\* message when no row is a "Data Scientist", and otherwise one mean-salary
\* entry per country code among the "Data Scientist" rows.
C7_GraficoPais ==
    status = "ok" =>
        LET g == graficos.pais
        IN /\ MsgPais # MsgSemDS
           /\ df_filtrado = <<>> => g = [tipo |-> "info", msg |-> MsgPais, dados |-> <<>>]
           /\ (df_filtrado # <<>> /\ LinhasDS = {}) =>
                 g = [tipo |-> "info", msg |-> MsgSemDS, dados |-> <<>>]
           /\ LinhasDS # {} =>
                 /\ g.tipo = "choropleth"
                 /\ g.msg = ""
                 /\ {g.dados[i].residencia_iso3 : i \in DOMAIN g.dados}
                       = {df_filtrado[i].residencia_iso3 : i \in LinhasDS}
                 /\ \A i \in DOMAIN g.dados : \A j \in DOMAIN g.dados :
                       g.dados[i].residencia_iso3 = g.dados[j].residencia_iso3 => i = j
                 /\ \A i \in DOMAIN g.dados :
                       MediaDe(g.dados[i].usd,
                               LAMBDA r : /\ r.cargo = "Data Scientist"
                                          /\ r.residencia_iso3 = g.dados[i].residencia_iso3)

\* C7 witness: rows, none of them a "Data Scientist", and the title-specific message
C7_Witness ==
    /\ status = "ok"
    /\ evento = "pass"
    /\ df_filtrado # <<>>
    /\ LinhasDS = {}
    /\ graficos.pais.msg = MsgSemDS

-----------------------------------------------------------------------------
(* Properties of the cache, of a failed load and of the passes *)

\* The cache entry is younger than one hour
DentroDaJanela == cache.valid /\ clock - cache.fetched_at < 3600

\* C8: a run of the script less than 3600 s after the last successful fetch
\* gets the cached Table and fetches nothing; a run after the window has
\* expired (or with no entry) fetches once and, when the fetch succeeds,
\* replaces the entry by the fetched Table, stamped with the time of the run.
C8_JanelaDeCache ==
    [][evento' = "pass" =>
        IF DentroDaJanela
        THEN /\ fetches' = 0
             /\ cache' = cache
             /\ status' = "ok"
             /\ df' = cache.df
        ELSE /\ fetches' = 1
             /\ fonte.estado = "ok" =>
                   /\ cache' = [valid |-> TRUE, df |-> fonte.tabela, fetched_at |-> clock]
                   /\ df' = fonte.tabela]_vars

\* C8 witness: a run in the last second of the window, answered from the cache
\* although the remote file has changed
C8_Witness ==
    /\ evento = "pass"
    /\ status = "ok"
    /\ fetches = 0
    /\ clock - cache.fetched_at = 3599
    /\ fonte.estado = "ok"
    /\ fonte.tabela # df

\* C9: when the remote source is unreachable or unparsable and the run has to
\* fetch, carregar_dados raises, the run ends there (no filter, metric, chart
\* or table stage runs) and the fetch is tried once.
C9_FalhaDeCarga ==
    [][(evento' = "pass" /\ ~DentroDaJanela /\ fonte.estado # "ok") =>
        /\ status' = "erro"
        /\ erro' = (IF fonte.estado = "inacessivel" THEN "URLError" ELSE "ParserError")
        /\ etapas' = <<"carregar_dados">>
        /\ fetches' = 1
        /\ df_filtrado' = <<>>
        /\ kpi' = KpiAusente
        /\ graficos' = SemGraficos
        /\ tabela' = <<>>]_vars

\* C9 witness: a run that had to fetch from an unreachable source and was
\* aborted in carregar_dados after one attempt
C9_Witness ==
    /\ evento = "pass"
    /\ status = "erro"
    /\ erro = "URLError"
    /\ fonte.estado = "inacessivel"
    /\ fetches = 1
    /\ etapas = <<"carregar_dados">>

\* C10: what a run shows is the pipeline run once on the cached Table with
\* the selection the session holds, whatever earlier runs showed; and a run
\* that does not fetch leaves the cache entry as it was.
C10_SemEstadoDerivado ==
    [][(evento' = "pass" /\ status' = "ok") =>
        LET tf == filtragem(cache'.df, sessao'["Ano"].valor,
                            sessao'["Senioridade"].valor,
                            sessao'["Tipo de Contrato"].valor,
                            sessao'["Tamanho da Empresa"].valor)
        IN /\ cache'.valid
           /\ df' = cache'.df
           /\ df_filtrado' = tf
           /\ kpi' = KPIs(tf)
           /\ graficos' = [cargos |-> grafico_cargos(tf), dist |-> grafico_dist(tf),
                           remoto |-> grafico_remoto(tf), pais |-> grafico_pais(tf)]
           /\ tabela' = tf
           /\ fetches' = 0 => cache' = cache]_vars

\* C10 witness: a run with a narrowed selection that followed other runs
\* and shows fewer rows than the cached Table holds
C10_Witness ==
    /\ evento = "pass"
    /\ status = "ok"
    /\ fetches = 0
    /\ clock > cache.fetched_at
    /\ df_filtrado # <<>>
    /\ Len(df_filtrado) < Len(cache.df)
    /\ kpi.total_registros = Len(df_filtrado)

====
